---- MODULE Spec2Model ----
(***************************************************************************)
(* utils/user.js of nodequiz: authentication, session gating, password     *)
(* reset and feedback logging on top of a document database.               *)
(*                                                                         *)
(* Every exported function is modelled as a call that occupies a slot of   *)
(* `calls` and advances one asynchronous answer at a time: an action is    *)
(* the database / hashing / LDAP operation answering together with the     *)
(* callback the code registered for it.  Each answer may be an error.      *)
(***************************************************************************)
EXTENDS Integers, Sequences, FiniteSets, TLC

VARIABLES
    users,          \* models.User collection, in insertion order
    tickets,        \* models.PasswordReset collection
    feedback,       \* models.Feedback collection
    now,            \* wall clock (new Date()), in ticks
    key_seq,        \* number of reset keys generated so far
    mail,           \* reset keys handed to mailer.mailResetKey
    calls,          \* in-flight calls of the exported functions
    reqs,           \* HTTP requests passing through the middleware
    AUTH_USE_LDAP   \* config.AUTH_USE_LDAP

vars == <<users, tickets, feedback, now, key_seq, mail, calls, reqs, AUTH_USE_LDAP>>

----------------------------------------------------------------------------
(* Bounds of the model *)

MaxCalls == 2
MaxTime == 3
MaxReqs == 2

(* config.RESET_VALIDITY, in hours; the clock ticks every half hour *)
RESET_VALIDITY == 1
TicksPerHour == 2

Calls == 1..MaxCalls
Reqs == 1..MaxReqs

(* Usernames are sequences of character codes: "a", "A", "b", "c" *)
Names == {<<97>>, <<65>>, <<98>>, <<99>>}
Passwords == {1, 2}
Salts == {1, 2}
Questions == {1}
Answers == {1, 2}

(* config.ERR_* strings; Null is the null error *)
Null == "null"
DbError == "DbError"
ERR_AUTH_LDAP_SERVER_DOWN == "ERR_AUTH_LDAP_SERVER_DOWN"
ERR_AUTH_FAILED == "ERR_AUTH_FAILED"
ERR_AUTH_LDAP_ERROR == "ERR_AUTH_LDAP_ERROR"
ERR_AUTH_INVALID_USERNAME == "ERR_AUTH_INVALID_USERNAME"
ERR_AUTH_ACTIVATION_PENDING == "ERR_AUTH_ACTIVATION_PENDING"
ERR_AUTH_INVALID_PASSWORD == "ERR_AUTH_INVALID_PASSWORD"
ERR_AUTH_NOT_LOGGED_IN == "ERR_AUTH_NOT_LOGGED_IN"
ERR_SIGNUP_ALREADY_EXISTS == "ERR_SIGNUP_ALREADY_EXISTS"
ERR_ACTIVATION_INVALID_KEY == "ERR_ACTIVATION_INVALID_KEY"
ERR_RESET_INVALID_DETAILS == "ERR_RESET_INVALID_DETAILS"

----------------------------------------------------------------------------
(* Pure helpers *)

Abs(x) == IF x < 0 THEN -x ELSE x

(* String.prototype.toLowerCase on character codes *)
toLowerCase(s) ==
    [i \in DOMAIN s |-> IF s[i] \in 65..90 THEN s[i] + 32 ELSE s[i]]

(* crypt.hash(pass, salt): a deterministic digest of password and salt *)
hash(pass, salt) == (3 * pass + 5 * salt) % 7

(* A user document; _id 0 stands for null / undefined *)
NullUser ==
    [_id |-> 0, username |-> <<>>, activated |-> FALSE, salt |-> 0, hash |-> 0,
     security_question |-> 0, security_answer |-> 0, last_seen |-> 0]

(* new models.User({username: ...}): schema defaults for everything else *)
NewUser(id, name) ==
    [NullUser EXCEPT !._id = id, !.username = name]

(* A reset key carries the encrypted user id; uid 0 is an undecipherable key *)
UndefinedKey == [uid |-> 0, nonce |-> 0]
NullTicket == [reset_key |-> UndefinedKey, user_id |-> 0, date |-> 0, used |-> FALSE]

generateResetKey(user_id, n) == [uid |-> user_id, nonce |-> n]
decryptResetKey(reset_key) ==
    IF reset_key.uid = 0 THEN [err |-> DbError, user_id |-> 0]
    ELSE [err |-> Null, user_id |-> reset_key.uid]

Docs(s) == {s[i] : i \in DOMAIN s}
Indices(s, P) == {i \in DOMAIN s : s[i] \in P}

(* Model.findOne(query, cb): the documents a query may answer with.  An     *)
(* error comes without a document; no match answers null.                  *)
FindOne(coll, P, null, err) ==
    IF err \/ Indices(coll, P) = {} THEN {null}
    ELSE {coll[i] : i \in Indices(coll, P)}

(* Model.update(query, update, {multi: false}): index of the document hit, 0 if none *)
UpdateTarget(coll, P) ==
    IF Indices(coll, P) = {} THEN 0
    ELSE CHOOSE i \in Indices(coll, P) : \A j \in Indices(coll, P) : i <= j

----------------------------------------------------------------------------
(* Calls *)

Idle == [op |-> "idle", pc |-> "idle"]
Cb(err, val) == [err |-> err, val |-> val]

IsIdle(c) == calls[c].op = "idle"
(* slots are taken in order; a slot serves one call *)
CanStart(c) == IsIdle(c) /\ \A d \in Calls : d < c => ~IsIdle(d)
At(c, op, pc) == calls[c].op = op /\ calls[c].pc = pc
Goto(c, rec) == calls' = [calls EXCEPT ![c] = rec]
(* the callback fn is invoked and the call ends *)
Invoke(call, err, val) ==
    [call EXCEPT !.pc = "done", !.fn = Append(@, Cb(err, val))]
(* an exception escapes the callback of an asynchronous answer *)
Throw(call) == [call EXCEPT !.pc = "done", !.thrown = TRUE]
(* the call ends without fn being invoked *)
End(call) == [call EXCEPT !.pc = "done"]
Begin(op, pc) == [op |-> op, pc |-> pc, fn |-> <<>>, thrown |-> FALSE, err |-> FALSE]
(* a call's record with the arguments / callback locals `ext` set *)
With(call, ext) == ext @@ call
(* an asynchronous step of the call has answered, with an error or without *)
Answered(call, err) == [call EXCEPT !.err = @ \/ err]

(* time passes *)
Tick ==
    /\ now < MaxTime
    /\ now' = now + 1
    /\ UNCHANGED <<users, tickets, feedback, key_seq, mail, calls, reqs, AUTH_USE_LDAP>>

----------------------------------------------------------------------------
(* isUsernameValid *)

isUsernameValid_result(err, user) ==
    IF user._id # 0
    THEN IF err THEN Cb(ERR_AUTH_INVALID_USERNAME, FALSE)
         ELSE Cb(Null, TRUE)
    ELSE Cb(Null, FALSE)

isUsernameValid(c, name) ==
    /\ CanStart(c)
    /\ Goto(c, With(Begin("isUsernameValid", "findOne"), [name |-> name]))
    /\ UNCHANGED <<users, tickets, feedback, now, key_seq, mail, reqs, AUTH_USE_LDAP>>

isUsernameValid_findOne(c) ==
    /\ At(c, "isUsernameValid", "findOne")
    /\ \E err \in BOOLEAN :
       \E user \in FindOne(users, {u \in Docs(users) : u.username = toLowerCase(calls[c].name)},
                           NullUser, err) :
           LET r == isUsernameValid_result(err, user)
           IN Goto(c, Invoke(Answered(calls[c], err), r.err, r.val))
    /\ UNCHANGED <<users, tickets, feedback, now, key_seq, mail, reqs, AUTH_USE_LDAP>>

----------------------------------------------------------------------------
(* authenticate *)

LdapAnswers == {"ConnectionError", "InvalidCredentialsError", "OtherError", "ok"}

authenticate(c, name, pass) ==
    /\ CanStart(c)
    /\ Goto(c, With(Begin("authenticate", IF AUTH_USE_LDAP THEN "ldap" ELSE "findOne"),
                    [name |-> name, pass |-> pass]))
    /\ UNCHANGED <<users, tickets, feedback, now, key_seq, mail, reqs, AUTH_USE_LDAP>>

(* ldap.authenticate answers; on success findOrCreateLDAPUser starts with isUsernameValid *)
authenticate_ldap(c) ==
    /\ At(c, "authenticate", "ldap")
    /\ \E answer \in LdapAnswers :
         Goto(c, CASE answer = "ConnectionError" ->
                        Invoke(Answered(calls[c], TRUE), ERR_AUTH_LDAP_SERVER_DOWN, Null)
                   [] answer = "InvalidCredentialsError" ->
                        Invoke(Answered(calls[c], TRUE), ERR_AUTH_FAILED, Null)
                   [] answer = "OtherError" ->
                        Invoke(Answered(calls[c], TRUE), ERR_AUTH_LDAP_ERROR, Null)
                   [] OTHER -> [calls[c] EXCEPT !.pc = "isUsernameValid"])
    /\ UNCHANGED <<users, tickets, feedback, now, key_seq, mail, reqs, AUTH_USE_LDAP>>

(* findOrCreateLDAPUser: isUsernameValid answers *)
findOrCreateLDAPUser_isUsernameValid(c) ==
    /\ At(c, "authenticate", "isUsernameValid")
    /\ \E err \in BOOLEAN :
       \E user \in FindOne(users, {u \in Docs(users) : u.username = toLowerCase(calls[c].name)},
                           NullUser, err) :
           LET r == isUsernameValid_result(err, user)
               call == Answered(calls[c], err)
           IN Goto(c, IF r.err # Null THEN Invoke(call, Null, NullUser)
                      ELSE IF r.val THEN [call EXCEPT !.pc = "existing_user"]
                      ELSE [call EXCEPT !.pc = "save"])
    /\ UNCHANGED <<users, tickets, feedback, now, key_seq, mail, reqs, AUTH_USE_LDAP>>

(* findOrCreateLDAPUser: the second findOne answers; its error is not looked at *)
findOrCreateLDAPUser_findOne(c) ==
    /\ At(c, "authenticate", "existing_user")
    /\ \E err \in BOOLEAN :
       \E existing_user \in FindOne(users,
                                    {u \in Docs(users) : u.username = toLowerCase(calls[c].name)},
                                    NullUser, err) :
           Goto(c, Invoke(Answered(calls[c], err), Null, existing_user))
    /\ UNCHANGED <<users, tickets, feedback, now, key_seq, mail, reqs, AUTH_USE_LDAP>>

(* findOrCreateLDAPUser: new models.User({username: username}).save answers *)
findOrCreateLDAPUser_save(c) ==
    /\ At(c, "authenticate", "save")
    /\ \E err \in BOOLEAN :
       LET new_user == NewUser(Len(users) + 1, calls[c].name)
       IN /\ users' = IF err THEN users ELSE Append(users, new_user)
          /\ Goto(c, Invoke(Answered(calls[c], err), Null,
                            IF err THEN NullUser ELSE new_user))
    /\ UNCHANGED <<tickets, feedback, now, key_seq, mail, reqs, AUTH_USE_LDAP>>

(* authenticate_findOne without the test of user.activated *)
authenticate_findOne_noActivationTest(c) ==
    /\ At(c, "authenticate", "findOne")
    /\ \E err \in BOOLEAN :
       \E user \in FindOne(users, {u \in Docs(users) : u.username = toLowerCase(calls[c].name)},
                           NullUser, err) :
           LET call == With(Answered(calls[c], err), [user |-> user])
           IN Goto(c, IF user._id # 0
                      THEN IF err THEN Invoke(call, ERR_AUTH_INVALID_USERNAME, Null)
                           ELSE [call EXCEPT !.pc = "hash"]
                      ELSE Invoke(call, ERR_AUTH_INVALID_USERNAME, Null))
    /\ UNCHANGED <<users, tickets, feedback, now, key_seq, mail, reqs, AUTH_USE_LDAP>>

(* local store: models.User.findOne({username: name.toLowerCase()}) answers *)
authenticate_findOne(c) ==
    /\ At(c, "authenticate", "findOne")
    /\ \E err \in BOOLEAN :
       \E user \in FindOne(users, {u \in Docs(users) : u.username = toLowerCase(calls[c].name)},
                           NullUser, err) :
           LET call == With(Answered(calls[c], err), [user |-> user])
           IN Goto(c, IF user._id # 0
                      THEN IF err THEN Invoke(call, ERR_AUTH_INVALID_USERNAME, Null)
                           ELSE IF ~user.activated
                                THEN Invoke(call, ERR_AUTH_ACTIVATION_PENDING, Null)
                                ELSE [call EXCEPT !.pc = "hash"]
                      ELSE Invoke(call, ERR_AUTH_INVALID_USERNAME, Null))
    /\ UNCHANGED <<users, tickets, feedback, now, key_seq, mail, reqs, AUTH_USE_LDAP>>

(* crypt.hash(pass, user.salt, cb) answers *)
authenticate_hash(c) ==
    /\ At(c, "authenticate", "hash")
    /\ \E err \in BOOLEAN :
       LET call == Answered(calls[c], err)
           user == calls[c].user
       IN Goto(c, IF err THEN Invoke(call, DbError, Null)
                  ELSE IF hash(calls[c].pass, user.salt) = user.hash
                       THEN Invoke(call, Null, user)
                       ELSE Invoke(call, ERR_AUTH_INVALID_PASSWORD, Null))
    /\ UNCHANGED <<users, tickets, feedback, now, key_seq, mail, reqs, AUTH_USE_LDAP>>

----------------------------------------------------------------------------
(* userExist, and the signup route that follows next() *)

userExist(c, username) ==
    /\ CanStart(c)
    /\ Goto(c, With(Begin("userExist", "count"),
                    [username |-> username, next |-> 0, redirect |-> 0, session_error |-> Null]))
    /\ UNCHANGED <<users, tickets, feedback, now, key_seq, mail, reqs, AUTH_USE_LDAP>>

(* models.User.count answers; on an error count is not 0 *)
userExist_count(c) ==
    /\ At(c, "userExist", "count")
    /\ \E err \in BOOLEAN :
       LET count == IF err THEN -1
                    ELSE Cardinality(Indices(users,
                            {u \in Docs(users) : u.username = toLowerCase(calls[c].username)}))
           call == Answered(calls[c], err)
       IN Goto(c, IF count = 0
                  THEN [call EXCEPT !.pc = "signup", !.next = @ + 1]
                  ELSE [call EXCEPT !.pc = "done", !.redirect = @ + 1,
                                    !.session_error = ERR_SIGNUP_ALREADY_EXISTS])
    /\ UNCHANGED <<users, tickets, feedback, now, key_seq, mail, reqs, AUTH_USE_LDAP>>

(* the signup route creates the record of the new user *)
signup_save(c) ==
    /\ At(c, "userExist", "signup")
    /\ users' = Append(users, [NewUser(Len(users) + 1, toLowerCase(calls[c].username))
                                  EXCEPT !.salt = 1, !.hash = hash(1, 1),
                                         !.security_question = 1, !.security_answer = 1])
    /\ Goto(c, End(calls[c]))
    /\ UNCHANGED <<tickets, feedback, now, key_seq, mail, reqs, AUTH_USE_LDAP>>

----------------------------------------------------------------------------
(* activateUser *)

activateUser(c, id) ==
    /\ CanStart(c)
    /\ Goto(c, With(Begin("activateUser", "findOne"), [id |-> id]))
    /\ UNCHANGED <<users, tickets, feedback, now, key_seq, mail, reqs, AUTH_USE_LDAP>>

activateUser_findOne(c) ==
    /\ At(c, "activateUser", "findOne")
    /\ \E err \in BOOLEAN :
       \E user \in FindOne(users, {u \in Docs(users) : u._id = calls[c].id}, NullUser, err) :
           LET call == Answered(calls[c], err)
           IN Goto(c, IF user._id # 0 THEN [call EXCEPT !.pc = "update"]
                      ELSE Invoke(call, ERR_ACTIVATION_INVALID_KEY, Null))
    /\ UNCHANGED <<users, tickets, feedback, now, key_seq, mail, reqs, AUTH_USE_LDAP>>

(* what User.update({_id: id, activated: false}, {activated: true}) does to *)
(* the document it hits                                                    *)
activateUser_set(user) == [user EXCEPT !.activated = TRUE]

(* activateUser_update with the query {_id: id}, without activated: false *)
activateUser_update_anyState(c) ==
    /\ At(c, "activateUser", "update")
    /\ \/ /\ Goto(c, Throw(Answered(calls[c], TRUE)))
          /\ UNCHANGED users
       \/ LET i == UpdateTarget(users, {u \in Docs(users) : u._id = calls[c].id})
          IN /\ users' = IF i = 0 THEN users
                         ELSE [users EXCEPT ![i] = activateUser_set(@)]
             /\ Goto(c, Invoke(calls[c], Null, IF i = 0 THEN 0 ELSE 1))
    /\ UNCHANGED <<tickets, feedback, now, key_seq, mail, reqs, AUTH_USE_LDAP>>

(* the update answers: an error is thrown, else fn gets the number of documents updated *)
activateUser_update(c) ==
    /\ At(c, "activateUser", "update")
    /\ \/ /\ Goto(c, Throw(Answered(calls[c], TRUE)))
          /\ UNCHANGED users
       \/ LET i == UpdateTarget(users, {u \in Docs(users) : u._id = calls[c].id /\ u.activated = FALSE})
          IN /\ users' = IF i = 0 THEN users
                         ELSE [users EXCEPT ![i] = activateUser_set(@)]
             /\ Goto(c, Invoke(calls[c], Null, IF i = 0 THEN 0 ELSE 1))
    /\ UNCHANGED <<tickets, feedback, now, key_seq, mail, reqs, AUTH_USE_LDAP>>

----------------------------------------------------------------------------
(* validateResetKey *)

(* ResetKeyStatus with < in place of <= *)
ResetKeyStatus_strict(reset_entry, time) ==
    IF reset_entry # NullTicket
    THEN IF reset_entry.used THEN "used"
         ELSE IF Abs(time - reset_entry.date) < RESET_VALIDITY * TicksPerHour
              THEN "success"
              ELSE "failure"
    ELSE "invalid_key"

ResetKeyStatus(reset_entry, time) ==
    IF reset_entry # NullTicket
    THEN IF reset_entry.used THEN "used"
         ELSE IF Abs(time - reset_entry.date) <= RESET_VALIDITY * TicksPerHour
              THEN "success"
              ELSE "failure"
    ELSE "invalid_key"

validateResetKey(c, reset_key) ==
    /\ CanStart(c)
    /\ Goto(c, With(Begin("validateResetKey", "findOne"), [reset_key |-> reset_key]))
    /\ UNCHANGED <<users, tickets, feedback, now, key_seq, mail, reqs, AUTH_USE_LDAP>>

validateResetKey_findOne(c) ==
    /\ At(c, "validateResetKey", "findOne")
    /\ \E err \in BOOLEAN :
       \E reset_entry \in FindOne(tickets, {t \in Docs(tickets) : t.reset_key = calls[c].reset_key},
                                  NullTicket, err) :
           Goto(c, Invoke(Answered(calls[c], err),
                          Null, ResetKeyStatus(reset_entry, now)))
    /\ UNCHANGED <<users, tickets, feedback, now, key_seq, mail, reqs, AUTH_USE_LDAP>>

----------------------------------------------------------------------------
(* sendResetKey *)

sendResetKey(c, name, security_question, security_answer) ==
    /\ CanStart(c)
    /\ Goto(c, With(Begin("sendResetKey", "findOne"),
                    [name |-> name, security_question |-> security_question,
                     security_answer |-> security_answer]))
    /\ UNCHANGED <<users, tickets, feedback, now, key_seq, mail, reqs, AUTH_USE_LDAP>>

sendResetKey_findOne(c) ==
    /\ At(c, "sendResetKey", "findOne")
    /\ \E err \in BOOLEAN :
       \E user \in FindOne(users,
                           {u \in Docs(users) : /\ u.username = toLowerCase(calls[c].name)
                                      /\ u.security_question = calls[c].security_question
                                      /\ u.security_answer = calls[c].security_answer},
                           NullUser, err) :
           LET call == Answered(calls[c], err)
           IN IF user._id # 0
              THEN Goto(c, With([call EXCEPT !.pc = "generateResetKey"], [user_id |-> user._id]))
              ELSE Goto(c, Invoke(call, ERR_RESET_INVALID_DETAILS, Null))
    /\ UNCHANGED <<users, tickets, feedback, now, key_seq, mail, reqs, AUTH_USE_LDAP>>

(* generateResetKey answers; the ticket document is built (date: new Date()) and its save issued *)
sendResetKey_generateResetKey(c) ==
    /\ At(c, "sendResetKey", "generateResetKey")
    /\ \E err \in BOOLEAN :
           Goto(c, With([Answered(calls[c], err) EXCEPT !.pc = "save"],
                        [reset_key |-> IF err THEN UndefinedKey
                                       ELSE generateResetKey(calls[c].user_id, key_seq + 1),
                         date |-> now]))
    /\ key_seq' = key_seq + 1
    /\ UNCHANGED <<users, tickets, feedback, now, mail, reqs, AUTH_USE_LDAP>>

(* save answers: the key is mailed and returned, whatever save reported *)
sendResetKey_save(c) ==
    /\ At(c, "sendResetKey", "save")
    /\ \E err \in BOOLEAN :
        /\ tickets' = IF err THEN tickets
                      ELSE Append(tickets, [reset_key |-> calls[c].reset_key,
                                            user_id |-> calls[c].user_id,
                                            date |-> calls[c].date, used |-> FALSE])
        /\ mail' = mail \cup {calls[c].reset_key}
        /\ Goto(c, Invoke(Answered(calls[c], err), Null, calls[c].reset_key))
    /\ UNCHANGED <<users, feedback, now, key_seq, reqs, AUTH_USE_LDAP>>

----------------------------------------------------------------------------
(* resetPassword *)

resetPassword(c, reset_key, new_password) ==
    /\ CanStart(c)
    /\ Goto(c, With(Begin("resetPassword", "decryptResetKey"),
                    [reset_key |-> reset_key, new_password |-> new_password]))
    /\ UNCHANGED <<users, tickets, feedback, now, key_seq, mail, reqs, AUTH_USE_LDAP>>

(* the error of decryptResetKey is not looked at *)
resetPassword_decryptResetKey(c) ==
    /\ At(c, "resetPassword", "decryptResetKey")
    /\ LET d == decryptResetKey(calls[c].reset_key)
       IN Goto(c, With([calls[c] EXCEPT !.pc = "hash"],
                       [user_id |-> d.user_id, err |-> d.err # Null]))
    /\ UNCHANGED <<users, tickets, feedback, now, key_seq, mail, reqs, AUTH_USE_LDAP>>

(* crypt.hash(new_password, cb) draws a fresh salt *)
resetPassword_hash(c) ==
    /\ At(c, "resetPassword", "hash")
    /\ \/ Goto(c, Throw(Answered(calls[c], TRUE)))
       \/ \E salt \in Salts :
              Goto(c, With([calls[c] EXCEPT !.pc = "update"],
                           [salt |-> salt, hash |-> hash(calls[c].new_password, salt)]))
    /\ UNCHANGED <<users, tickets, feedback, now, key_seq, mail, reqs, AUTH_USE_LDAP>>

(* User.update({_id: user_id}, {salt, hash}, {multi: false}) *)
resetPassword_update(c) ==
    /\ At(c, "resetPassword", "update")
    /\ \/ /\ Goto(c, Throw(Answered(calls[c], TRUE)))
          /\ UNCHANGED users
       \/ LET i == UpdateTarget(users, {u \in Docs(users) : u._id = calls[c].user_id /\ u._id # 0})
          IN /\ users' = IF i = 0 THEN users
                         ELSE [users EXCEPT ![i].salt = calls[c].salt,
                                            ![i].hash = calls[c].hash]
             /\ Goto(c, With([calls[c] EXCEPT !.pc = "findOneAndUpdate"],
                             [count |-> IF i = 0 THEN 0 ELSE 1]))
    /\ UNCHANGED <<tickets, feedback, now, key_seq, mail, reqs, AUTH_USE_LDAP>>

(* PasswordReset.findOneAndUpdate({reset_key}, {used: true}) *)
resetPassword_findOneAndUpdate(c) ==
    /\ At(c, "resetPassword", "findOneAndUpdate")
    /\ \/ /\ Goto(c, Throw(Answered(calls[c], TRUE)))
          /\ UNCHANGED tickets
       \/ LET i == UpdateTarget(tickets, {t \in Docs(tickets) : t.reset_key = calls[c].reset_key})
          IN /\ tickets' = IF i = 0 THEN tickets ELSE [tickets EXCEPT ![i].used = TRUE]
             /\ Goto(c, Invoke(calls[c], Null, TRUE))
    /\ UNCHANGED <<users, feedback, now, key_seq, mail, reqs, AUTH_USE_LDAP>>

----------------------------------------------------------------------------
(* saveFeedback, getFeedbackData, saveLastSeen, getUnreadFeedbackCount *)

(* stats.getUserIdFromName: the id of the user of that name, 0 (null) if none or on error *)
getUserIdFromName(username, err) ==
    LET i == UpdateTarget(users, {u \in Docs(users) : u.username = username})
    IN IF err \/ i = 0 THEN 0 ELSE users[i]._id

saveFeedback(c, username, feedback_data) ==
    /\ CanStart(c)
    /\ Goto(c, With(Begin("saveFeedback", "getUserIdFromName"),
                    [username |-> username, feedback_data |-> feedback_data]))
    /\ UNCHANGED <<users, tickets, feedback, now, key_seq, mail, reqs, AUTH_USE_LDAP>>

saveFeedback_getUserIdFromName(c) ==
    /\ At(c, "saveFeedback", "getUserIdFromName")
    /\ \E err \in BOOLEAN :
           Goto(c, With([Answered(calls[c], err) EXCEPT !.pc = "save"],
                        [user_id |-> getUserIdFromName(calls[c].username, err)]))
    /\ UNCHANGED <<users, tickets, feedback, now, key_seq, mail, reqs, AUTH_USE_LDAP>>

(* save answers; the callback only logs, fn is not invoked *)
saveFeedback_save(c) ==
    /\ At(c, "saveFeedback", "save")
    /\ \E err \in BOOLEAN :
        /\ feedback' = IF err THEN feedback
                       ELSE Append(feedback, [user_id |-> calls[c].user_id,
                                              feedback_data |-> calls[c].feedback_data,
                                              date |-> now])
        /\ Goto(c, End(Answered(calls[c], err)))
    /\ UNCHANGED <<users, tickets, now, key_seq, mail, reqs, AUTH_USE_LDAP>>

(* query.sort({date: -1}): insertion sort, latest first *)
RECURSIVE SortByDateDesc(_)
SortByDateDesc(s) ==
    IF s = <<>> THEN <<>>
    ELSE LET rest == SortByDateDesc(Tail(s))
             k == Cardinality({i \in DOMAIN rest : rest[i].date > Head(s).date})
         IN SubSeq(rest, 1, k) \o <<Head(s)>> \o SubSeq(rest, k + 1, Len(rest))

getFeedbackData(c) ==
    /\ CanStart(c)
    /\ Goto(c, Begin("getFeedbackData", "exec"))
    /\ UNCHANGED <<users, tickets, feedback, now, key_seq, mail, reqs, AUTH_USE_LDAP>>

(* query.exec answers; its error is not looked at *)
getFeedbackData_exec(c) ==
    /\ At(c, "getFeedbackData", "exec")
    /\ \E err \in BOOLEAN :
           Goto(c, Invoke(Answered(calls[c], err), Null,
                          IF err THEN <<>> ELSE SortByDateDesc(feedback)))
    /\ UNCHANGED <<users, tickets, feedback, now, key_seq, mail, reqs, AUTH_USE_LDAP>>

saveLastSeen(c, username) ==
    /\ CanStart(c)
    /\ Goto(c, With(Begin("saveLastSeen", "getUserIdFromName"), [username |-> username]))
    /\ UNCHANGED <<users, tickets, feedback, now, key_seq, mail, reqs, AUTH_USE_LDAP>>

saveLastSeen_getUserIdFromName(c) ==
    /\ At(c, "saveLastSeen", "getUserIdFromName")
    /\ \E err \in BOOLEAN :
           Goto(c, With([Answered(calls[c], err) EXCEPT !.pc = "findByIdAndUpdate"],
                        [user_id |-> getUserIdFromName(calls[c].username, err),
                         last_seen |-> now]))
    /\ UNCHANGED <<users, tickets, feedback, now, key_seq, mail, reqs, AUTH_USE_LDAP>>

(* models.User.findByIdAndUpdate(user_id, {last_seen}, {upsert: true}) answers: *)
(* the document of that id is updated, or a new document is inserted         *)
saveLastSeen_findByIdAndUpdate(c) ==
    /\ At(c, "saveLastSeen", "findByIdAndUpdate")
    /\ \/ /\ Goto(c, Invoke(Answered(calls[c], TRUE), DbError, Null))
          /\ UNCHANGED users
       \/ LET i == UpdateTarget(users, {u \in Docs(users) : u._id = calls[c].user_id /\ u._id # 0})
              id == IF i = 0 THEN Len(users) + 1 ELSE users[i]._id
          IN /\ users' = IF i = 0
                         THEN Append(users, [NewUser(id, <<>>) EXCEPT
                                                !.last_seen = calls[c].last_seen])
                         ELSE [users EXCEPT ![i].last_seen = calls[c].last_seen]
             /\ Goto(c, Invoke(Answered(calls[c], FALSE), Null, id))
    /\ UNCHANGED <<tickets, feedback, now, key_seq, mail, reqs, AUTH_USE_LDAP>>

getUnreadFeedbackCount(c, last_seen) ==
    /\ CanStart(c)
    /\ Goto(c, With(Begin("getUnreadFeedbackCount", "count"), [last_seen |-> last_seen]))
    /\ UNCHANGED <<users, tickets, feedback, now, key_seq, mail, reqs, AUTH_USE_LDAP>>

(* models.Feedback.count answers; unread_count || 0 *)
getUnreadFeedbackCount_count(c) ==
    /\ At(c, "getUnreadFeedbackCount", "count")
    /\ \E err \in BOOLEAN :
           Goto(c, Invoke(Answered(calls[c], err), Null,
                          IF err THEN 0
                          ELSE Cardinality(Indices(feedback,
                                   {f \in Docs(feedback) : f.date >= calls[c].last_seen}))))
    /\ UNCHANGED <<users, tickets, feedback, now, key_seq, mail, reqs, AUTH_USE_LDAP>>

----------------------------------------------------------------------------
(* Session middleware.  A request runs requiredAuthentication or           *)
(* requiredAdmin first; a route for administrators chains requiredAdmin    *)
(* after requiredAuthentication has called next().                         *)

NewReq == [stage |-> "new"]
Req(user, is_admin, xhr) ==
    [stage |-> "received", user |-> user, is_admin |-> is_admin, xhr |-> xhr,
     error |-> Null, ran |-> <<>>, next |-> <<>>, status |-> 200, sent |-> <<>>]

(* a request arrives with its session (user, is_admin) and its xhr flag *)
request(r, user, is_admin, xhr) ==
    /\ reqs[r] = NewReq
    /\ \A q \in Reqs : q < r => reqs[q] # NewReq
    /\ reqs' = [reqs EXCEPT ![r] = Req(user, is_admin, xhr)]
    /\ UNCHANGED <<users, tickets, feedback, now, key_seq, mail, calls, AUTH_USE_LDAP>>

requiredAuthentication_result(req) ==
    IF req.user
    THEN [req EXCEPT !.stage = "next", !.next = Append(@, "requiredAuthentication")]
    ELSE [req EXCEPT !.stage = "responded", !.error = ERR_AUTH_NOT_LOGGED_IN,
                     !.sent = Append(@, [status |-> 302, body |-> "redirect URL.LOGIN"])]

requiredAuthentication(r) ==
    /\ reqs[r].stage = "received"
    /\ reqs' = [reqs EXCEPT ![r] = [requiredAuthentication_result(@) EXCEPT
                                        !.ran = Append(@, "requiredAuthentication")]]
    /\ UNCHANGED <<users, tickets, feedback, now, key_seq, mail, calls, AUTH_USE_LDAP>>

requiredAdmin_result(req) ==
    IF req.is_admin
    THEN [req EXCEPT !.stage = "next", !.next = Append(@, "requiredAdmin")]
    ELSE [req EXCEPT !.stage = "responded", !.status = 403,
                     !.sent = Append(@, [status |-> 403,
                                         body |-> IF req.xhr THEN "json error"
                                                  ELSE "render TEMPL_403"])]

(* requiredAdmin is the first middleware of a route or follows requiredAuthentication *)
requiredAdmin(r) ==
    /\ \/ reqs[r].stage = "received"
       \/ reqs[r].stage = "next" /\ reqs[r].ran = <<"requiredAuthentication">>
    /\ reqs' = [reqs EXCEPT ![r] = [requiredAdmin_result(@) EXCEPT
                                        !.ran = Append(@, "requiredAdmin")]]
    /\ UNCHANGED <<users, tickets, feedback, now, key_seq, mail, calls, AUTH_USE_LDAP>>

----------------------------------------------------------------------------
(* Initial states *)

(* an activated user "a" with password 1, a user "b" awaiting activation *)
SeedUsers ==
    << [NullUser EXCEPT !._id = 1, !.username = <<97>>, !.activated = TRUE,
                        !.salt = 1, !.hash = hash(1, 1),
                        !.security_question = 1, !.security_answer = 1],
       [NullUser EXCEPT !._id = 2, !.username = <<98>>, !.activated = FALSE,
                        !.salt = 2, !.hash = hash(2, 2),
                        !.security_question = 1, !.security_answer = 2] >>

(* the ticket of a reset key sent to user "a" at time 0 *)
SeedKey == generateResetKey(1, 1)
SeedTickets ==
    << [reset_key |-> SeedKey, user_id |-> 1, date |-> 0, used |-> FALSE] >>

InitWith(store, reset_store, ldap) ==
    /\ users = store
    /\ tickets = reset_store
    /\ feedback = <<>>
    /\ now = 0
    /\ key_seq = Len(reset_store)
    /\ mail = {reset_store[i].reset_key : i \in DOMAIN reset_store}
    /\ calls = [c \in Calls |-> Idle]
    /\ reqs = [r \in Reqs |-> NewReq]
    /\ AUTH_USE_LDAP = ldap

(* keys a caller can present: the ones mailed out, and an undecipherable one *)
KnownKeys == mail \cup {UndefinedKey}

----------------------------------------------------------------------------
(* Password reset: sendResetKey, validateResetKey, resetPassword *)

InitReset == InitWith(SeedUsers, SeedTickets, FALSE)

NextReset ==
    \/ Tick
    \/ \E c \in Calls :
        \/ \E a \in Answers : sendResetKey(c, <<65>>, 1, a)
        \/ sendResetKey_findOne(c)
        \/ sendResetKey_generateResetKey(c)
        \/ sendResetKey_save(c)
        \/ \E k \in KnownKeys : validateResetKey(c, k)
        \/ validateResetKey_findOne(c)
        \/ \E k \in KnownKeys : resetPassword(c, k, 2)
        \/ resetPassword_decryptResetKey(c)
        \/ resetPassword_hash(c)
        \/ resetPassword_update(c)
        \/ resetPassword_findOneAndUpdate(c)

SpecReset == InitReset /\ [][NextReset]_vars

TicketsOf(k) == {i \in DOMAIN tickets : tickets[i].reset_key = k}
(* the ticket is unused and at most RESET_VALIDITY hours old *)
ValidTicket(t) == ~t.used /\ now - t.date <= RESET_VALIDITY * TicksPerHour
StatusOf(t) ==
    IF t.used THEN "used" ELSE IF ValidTicket(t) THEN "success" ELSE "failure"
StatusesOf(k) ==
    IF TicketsOf(k) = {} THEN {"invalid_key"} ELSE {StatusOf(tickets[i]) : i \in TicketsOf(k)}
(* the resetPassword calls carrying key k whose update hit a user document *)
UpdatedWith(k) ==
    {c \in Calls : /\ calls[c].op = "resetPassword"
                   /\ calls[c].reset_key = k
                   /\ "count" \in DOMAIN calls[c]
                   /\ calls[c].count = 1}
Completed(c, op) ==
    calls[c].op = op /\ calls[c].pc = "done" /\ Len(calls[c].fn) = 1 /\ ~calls[c].thrown

(* C2: a reset ticket is single-use: at most one resetPassword call carrying *)
(* its key ever updates a user's salt/hash, and once such a call has         *)
(* completed the ticket is marked used and validates as 'used'.              *)
C2_SingleUseTicket ==
    \A i \in DOMAIN tickets :
        LET k == tickets[i].reset_key
        IN /\ Cardinality(UpdatedWith(k)) <= 1
           /\ (\E c \in Calls : Completed(c, "resetPassword") /\ calls[c].reset_key = k)
                  => tickets[i].used /\ StatusesOf(k) = {"used"}

ValidateAnswers(c) == At(c, "validateResetKey", "findOne") /\ calls'[c].pc = "done"

C8_SavedThenMailed ==
    [][/\ \A k \in mail' : \E i \in DOMAIN tickets' : tickets'[i].reset_key = k
       /\ \A c \in Calls :
            /\ (At(c, "sendResetKey", "save") /\ calls'[c].pc = "done") =>
                  /\ calls'[c].fn = <<Cb(Null, calls[c].reset_key)>>
                  /\ \E i \in DOMAIN tickets' :
                        /\ tickets'[i].reset_key = calls[c].reset_key
                        /\ tickets'[i].user_id = calls[c].user_id
                        /\ ~tickets'[i].used
            /\ (At(c, "sendResetKey", "findOne") /\ calls'[c].pc = "done") =>
                  /\ calls'[c].fn = <<Cb(ERR_RESET_INVALID_DETAILS, Null)>>
                  /\ tickets' = tickets
                  /\ mail' = mail]_vars

(* C10: resetPassword changes a user's salt/hash only while a ticket with   *)
(* its reset key is stored, unused and at most RESET_VALIDITY hours old.    *)
C10_ValidTicketRequired ==
    [][\A c \in Calls :
          (At(c, "resetPassword", "update") /\ users' # users) =>
              \E i \in TicketsOf(calls[c].reset_key) : ValidTicket(tickets[i])]_vars

----------------------------------------------------------------------------
(* Session gating: requiredAuthentication, requiredAdmin *)

InitGate == InitWith(SeedUsers, <<>>, FALSE)

NextGate ==
    \E r \in Reqs :
        \/ \E user \in BOOLEAN, is_admin \in BOOLEAN, xhr \in BOOLEAN :
               request(r, user, is_admin, xhr)
        \/ requiredAuthentication(r)
        \/ requiredAdmin(r)

SpecGate == InitGate /\ [][NextGate]_vars

Ran(req, mw) == \E i \in DOMAIN req.ran : req.ran[i] = mw
CalledNext(req, mw) == \E i \in DOMAIN req.next : req.next[i] = mw

(* C6: each middleware calls next() iff its session flag is set; otherwise  *)
(* it never calls next() and emits exactly one response:                    *)
(* requiredAuthentication sets session.error and redirects to the login     *)
(* page, requiredAdmin redirects to the login page, or sends a 403 when the *)
(* request is an AJAX request.                                              *)
C6_SessionGating ==
    \A r \in Reqs : reqs[r] # NewReq =>
        LET req == reqs[r]
        IN /\ Ran(req, "requiredAuthentication") =>
                /\ CalledNext(req, "requiredAuthentication") <=> req.user
                /\ ~req.user =>
                      /\ req.error = ERR_AUTH_NOT_LOGGED_IN
                      /\ req.sent = <<[status |-> 302, body |-> "redirect URL.LOGIN"]>>
           /\ Ran(req, "requiredAdmin") =>
                /\ CalledNext(req, "requiredAdmin") <=> req.is_admin
                /\ ~req.is_admin =>
                      req.sent = << IF req.xhr
                                    THEN [status |-> 403, body |-> "json error"]
                                    ELSE [status |-> 302, body |-> "redirect URL.LOGIN"] >>

----------------------------------------------------------------------------
(* LDAP login: authenticate with AUTH_USE_LDAP on, findOrCreateLDAPUser *)

InitLdap == InitWith(<<>>, <<>>, TRUE)

NextLdap ==
    \E c \in Calls :
        \/ \E name \in Names : authenticate(c, name, 1)
        \/ authenticate_ldap(c)
        \/ findOrCreateLDAPUser_isUsernameValid(c)
        \/ findOrCreateLDAPUser_findOne(c)
        \/ findOrCreateLDAPUser_save(c)

SpecLdap == InitLdap /\ [][NextLdap]_vars

(* C1: at most one user record per username, compared case-insensitively *)
C1_UniqueUsername ==
    \A i, j \in DOMAIN users :
        i # j => toLowerCase(users[i].username) # toLowerCase(users[j].username)

----------------------------------------------------------------------------
(* Local-store login: authenticate with AUTH_USE_LDAP off, while users are *)
(* activated and passwords reset                                           *)

InitAuth == InitWith(SeedUsers, SeedTickets, FALSE)

NextAuth ==
    \E c \in Calls :
        \/ \E name \in {<<97>>, <<65>>, <<98>>, <<99>>}, pass \in Passwords :
               authenticate(c, name, pass)
        \/ authenticate_findOne(c)
        \/ authenticate_hash(c)
        \/ activateUser(c, 2)
        \/ activateUser_findOne(c)
        \/ activateUser_update(c)
        \/ resetPassword(c, SeedKey, 2)
        \/ resetPassword_decryptResetKey(c)
        \/ resetPassword_hash(c)
        \/ resetPassword_update(c)
        \/ resetPassword_findOneAndUpdate(c)

SpecAuth == InitAuth /\ [][NextAuth]_vars

Steps(c, op, pc) == At(c, op, pc) /\ calls'[c] # calls[c]
MatchingUsers(name) == Indices(users, {u \in Docs(users) : u.username = toLowerCase(name)})

(* what authenticate does once the record `user` is known to be activated: *)
(* fn(null, user) iff the password hashes to the stored hash               *)
PasswordOutcome(call) ==
    IF hash(call.pass, call.user.salt) = call.user.hash
    THEN <<Cb(Null, call.user)>>
    ELSE <<Cb(ERR_AUTH_INVALID_PASSWORD, Null)>>

(* C5 as stated: fn(null, user) iff a record with the lower-cased name      *)
(* exists, is activated and the password hashes to its stored hash;         *)
(* otherwise ERR_AUTH_INVALID_USERNAME when there is no record,             *)
(* ERR_AUTH_ACTIVATION_PENDING when it is not activated (whatever the       *)
(* password), ERR_AUTH_INVALID_PASSWORD when the hash differs; in every     *)
(* other case fn receives an error and no user.                             *)
C5_OutcomeOfStore ==
    [][\A c \in Calls :
        /\ Steps(c, "authenticate", "findOne") =>
              IF MatchingUsers(calls[c].name) = {}
              THEN calls'[c].fn = <<Cb(ERR_AUTH_INVALID_USERNAME, Null)>>
              ELSE \E i \in MatchingUsers(calls[c].name) :
                      IF users[i].activated
                      THEN calls'[c].pc = "hash" /\ calls'[c].user = users[i]
                      ELSE calls'[c].fn = <<Cb(ERR_AUTH_ACTIVATION_PENDING, Null)>>
        /\ Steps(c, "authenticate", "hash") =>
              IF calls'[c].err
              THEN /\ Len(calls'[c].fn) = 1
                   /\ calls'[c].fn[1].err # Null
                   /\ calls'[c].fn[1].val = Null
              ELSE calls'[c].fn = PasswordOutcome(calls[c])]_vars

(* C5 amended: as stated whenever the lookup and the hashing answer without *)
(* error; a lookup error is reported as ERR_AUTH_INVALID_USERNAME and a     *)
(* hashing error is passed to fn unchanged, both without a user.            *)
C5_OutcomeOfLookup ==
    [][\A c \in Calls :
        /\ Steps(c, "authenticate", "findOne") =>
              IF calls'[c].err \/ MatchingUsers(calls[c].name) = {}
              THEN calls'[c].fn = <<Cb(ERR_AUTH_INVALID_USERNAME, Null)>>
              ELSE \E i \in MatchingUsers(calls[c].name) :
                      IF users[i].activated
                      THEN calls'[c].pc = "hash" /\ calls'[c].user = users[i]
                      ELSE calls'[c].fn = <<Cb(ERR_AUTH_ACTIVATION_PENDING, Null)>>
        /\ Steps(c, "authenticate", "hash") =>
              calls'[c].fn = IF calls'[c].err THEN <<Cb(DbError, Null)>>
                             ELSE PasswordOutcome(calls[c])]_vars

(* "A" with the right password has logged in as user "a" *)
C5_Witness ==
    \E c \in Calls :
        /\ Completed(c, "authenticate")
        /\ calls[c].name = <<65>>
        /\ calls[c].fn[1].err = Null
        /\ calls[c].fn[1].val.username = <<97>>

----------------------------------------------------------------------------
(* Everything that writes the user collection: activateUser, resetPassword, *)
(* saveLastSeen, signup, findOrCreateLDAPUser                               *)

InitActivate == InitWith(SeedUsers, SeedTickets, TRUE)

NextActivate ==
    \E c \in Calls :
        \/ \E id \in 1..3 : activateUser(c, id)
        \/ activateUser_findOne(c)
        \/ activateUser_update(c)
        \/ resetPassword(c, SeedKey, 2)
        \/ resetPassword_decryptResetKey(c)
        \/ resetPassword_hash(c)
        \/ resetPassword_update(c)
        \/ resetPassword_findOneAndUpdate(c)
        \/ \E name \in {<<98>>, <<65>>} : saveLastSeen(c, name)
        \/ saveLastSeen_getUserIdFromName(c)
        \/ saveLastSeen_findByIdAndUpdate(c)
        \/ \E name \in {<<65>>, <<99>>} : userExist(c, name)
        \/ userExist_count(c)
        \/ signup_save(c)
        \/ authenticate(c, <<99>>, 1)
        \/ authenticate_ldap(c)
        \/ findOrCreateLDAPUser_isUsernameValid(c)
        \/ findOrCreateLDAPUser_findOne(c)
        \/ findOrCreateLDAPUser_save(c)

SpecActivate == InitActivate /\ [][NextActivate]_vars

UsersWithId(id) == Indices(users, {u \in Docs(users) : u._id = id})
(* the store with `activated` set on the user of that id, all else as it was *)
ActivatedStore(id) ==
    [i \in DOMAIN users |->
        IF users[i]._id = id THEN [users[i] EXCEPT !.activated = TRUE] ELSE users[i]]
NeverDeactivated ==
    \A i \in DOMAIN users : i \in DOMAIN users' /\ (users[i].activated => users'[i].activated)
ActivatedAfterSuccess ==
    \A c \in Calls :
        (Completed(c, "activateUser") /\ calls[c].fn[1].err = Null) =>
            \A i \in UsersWithId(calls[c].id) : users[i].activated

----------------------------------------------------------------------------
(* Every exported function that takes a callback *)

InitOps == \E ldap \in BOOLEAN : InitWith(SeedUsers, SeedTickets, ldap)

NextOps ==
    \/ Tick
    \/ \E c \in Calls :
        \/ \E name \in {<<65>>, <<98>>}, pass \in Passwords : authenticate(c, name, pass)
        \/ authenticate_ldap(c)
        \/ findOrCreateLDAPUser_isUsernameValid(c)
        \/ findOrCreateLDAPUser_findOne(c)
        \/ findOrCreateLDAPUser_save(c)
        \/ authenticate_findOne(c)
        \/ authenticate_hash(c)
        \/ \E name \in {<<65>>, <<99>>} : isUsernameValid(c, name)
        \/ isUsernameValid_findOne(c)
        \/ \E id \in 2..3 : activateUser(c, id)
        \/ activateUser_findOne(c)
        \/ activateUser_update(c)
        \/ \E k \in KnownKeys : validateResetKey(c, k)
        \/ validateResetKey_findOne(c)
        \/ \E a \in Answers : sendResetKey(c, <<65>>, 1, a)
        \/ sendResetKey_findOne(c)
        \/ sendResetKey_generateResetKey(c)
        \/ sendResetKey_save(c)
        \/ \E k \in KnownKeys : resetPassword(c, k, 2)
        \/ resetPassword_decryptResetKey(c)
        \/ resetPassword_hash(c)
        \/ resetPassword_update(c)
        \/ resetPassword_findOneAndUpdate(c)
        \/ saveFeedback(c, <<97>>, 1)
        \/ saveFeedback_getUserIdFromName(c)
        \/ saveFeedback_save(c)
        \/ getFeedbackData(c)
        \/ getFeedbackData_exec(c)
        \/ \E name \in {<<97>>, <<99>>} : saveLastSeen(c, name)
        \/ saveLastSeen_getUserIdFromName(c)
        \/ saveLastSeen_findByIdAndUpdate(c)
        \/ \E last_seen \in {0, 1} : getUnreadFeedbackCount(c, last_seen)
        \/ getUnreadFeedbackCount_count(c)

SpecOps == InitOps /\ [][NextOps]_vars

Finished(c) == calls[c].pc = "done"

(* C3: whenever a database, hashing, key-decryption or LDAP step of one of  *)
(* these operations reports an error, the operation ends by invoking fn     *)
(* with a non-null error; it does not throw and does not report success.    *)
C3_ErrorsForwarded ==
    \A c \in Calls :
        (/\ Finished(c)
         /\ calls[c].op \in {"authenticate", "isUsernameValid", "activateUser",
                             "validateResetKey", "sendResetKey", "resetPassword",
                             "getFeedbackData", "saveLastSeen", "getUnreadFeedbackCount"}
         /\ calls[c].err)
        => /\ ~calls[c].thrown
           /\ Len(calls[c].fn) = 1
           /\ calls[c].fn[1].err # Null

(* C4: once every asynchronous step of an operation has answered, fn has    *)
(* been invoked, exactly once.                                              *)
C4_CallbackOnce ==
    \A c \in Calls :
        (/\ Finished(c)
         /\ calls[c].op \in {"authenticate", "isUsernameValid", "activateUser",
                             "validateResetKey", "sendResetKey", "resetPassword",
                             "saveFeedback", "getFeedbackData", "saveLastSeen",
                             "getUnreadFeedbackCount"})
        => Len(calls[c].fn) = 1

====
